---- MODULE Spec2Model ----
(***************************************************************************)
(* quantum-circuit-drawer: the circuit model (Circuit.ts), the gate        *)
(* classes (gates/*.ts), the style configuration (styles.ts) and the       *)
(* renderer (Renderer.ts).                                                 *)
(*                                                                         *)
(* Units.  Renderer.draw divides style values by 2 (gateWidth / 2,         *)
(* gateHeight / 2), so every coordinate and every size of a shape is kept  *)
(* in HALF PIXELS: Px(v) is v pixels, HalfPx(v) is v / 2 pixels.  Both are *)
(* exact for every integer style value.  Stroke widths and font sizes      *)
(* take part in no division and are kept in pixels.                        *)
(*                                                                         *)
(* Strings that the code inspects or builds (gate names) are sequences of  *)
(* characters; "deg" stands for the degree sign.                           *)
(*                                                                         *)
(* A JavaScript object is a record [vals, undef]: vals maps each own key   *)
(* that holds a defined value to that value, undef is the set of own keys  *)
(* that hold the value undefined.                                          *)
(***************************************************************************)
EXTENDS Integers, Sequences, FiniteSets, TLC

VARIABLES
    numQubits,           \* Circuit.numQubits
    gates,               \* Circuit.gates
    DefaultStyleConfig,  \* the exported object of styles.ts
    override,            \* the styles argument given to the Renderer constructor
    styles,              \* Renderer.styles (EmptyObject before construction)
    svg,                 \* Renderer.svg: the calls the surface has received, in order (<<>> before construction)
    draws,               \* history: per draw() call, where it starts in svg and the gate count it saw
    addArgs,             \* history: the arguments of the addGate calls, in call order
    call,                \* the constructor call of the last statement "circuit.addGate(new G(...))"
    result               \* what that constructor call produced

vars == <<numQubits, gates, DefaultStyleConfig, override, styles, svg, draws,
          addArgs, call, result>>

-----------------------------------------------------------------------------
(* Bounds *)

MaxGates == 2        \* addGate calls per behaviour of Spec
MaxDraws == 2        \* draw() calls per behaviour of Spec
MaxQubit == 2        \* largest qubit index given to a constructor in SpecGates
MaxCtorAdds == 1     \* statements that add a gate per behaviour of SpecGates
MaxOverrideKeys == 2 \* keys an override supplies in SpecStyles

-----------------------------------------------------------------------------
(* Units *)

Px(v) == 2 * v
HalfPx(v) == v

-----------------------------------------------------------------------------
(* styles.ts *)

StyleKeys ==
    {"qubitSpacing", "gateSpacing", "gateWidth", "gateHeight", "lineColor",
     "lineWidth", "gateFill", "gateStroke", "gateStrokeWidth", "fontSize",
     "fontFamily", "fontColor"}

DefaultStyleValues ==
    [qubitSpacing |-> 50,
     gateSpacing |-> 70,
     gateWidth |-> 40,
     gateHeight |-> 40,
     lineColor |-> "#000",
     lineWidth |-> 2,
     gateFill |-> "#fff",
     gateStroke |-> "#000",
     gateStrokeWidth |-> 2,
     fontSize |-> 14,
     fontFamily |-> "Arial, sans-serif",
     fontColor |-> "#000"]

EmptyVals == [k \in {} |-> 0]

EmptyObject == [vals |-> EmptyVals, undef |-> {}]

Object(v) == [vals |-> v, undef |-> {}]

\* { ...a, ...b }: b's own keys win, also those holding undefined.
ObjectSpread(a, b) ==
    [vals |-> [k \in (DOMAIN a.vals \ b.undef) \cup DOMAIN b.vals |->
                  IF k \in DOMAIN b.vals THEN b.vals[k] ELSE a.vals[k]],
     undef |-> (a.undef \ DOMAIN b.vals) \cup b.undef]

\* Renderer constructor, line 51: this.styles = { ...DefaultStyleConfig, ...styles }
MergedStyles(defaults, o) == ObjectSpread(defaults, o)

\* Renderer constructor, line 50: SVG().addTo(...).size("100%", "100%")
NewSvg == <<[kind |-> "size", width |-> 100, height |-> 100, unit |-> "%"]>>

-----------------------------------------------------------------------------
(* gates/*.ts *)

NoGate == [class |-> "none", name |-> <<>>, qubits |-> <<>>]

Throw(msg) == [threw |-> TRUE, error |-> msg, obj |-> NoGate]

Return(g) == [threw |-> FALSE, error |-> "", obj |-> g]

HadamardGate(qubit) ==
    IF qubit < 0
    THEN Throw("Qubit index must be a non-negative integer.")
    ELSE Return([class |-> "HadamardGate", name |-> <<"H">>, qubits |-> <<qubit>>])

PauliXGate(qubit) ==
    IF qubit < 0
    THEN Throw("Qubit index must be a non-negative integer.")
    ELSE Return([class |-> "PauliXGate", name |-> <<"X">>, qubits |-> <<qubit>>])

PauliYGate(qubit) ==
    IF qubit < 0
    THEN Throw("Qubit index must be a non-negative integer.")
    ELSE Return([class |-> "PauliYGate", name |-> <<"Y">>, qubits |-> <<qubit>>])

PauliZGate(qubit) ==
    IF qubit < 0
    THEN Throw("Qubit index must be a non-negative integer.")
    ELSE Return([class |-> "PauliZGate", name |-> <<"Z">>, qubits |-> <<qubit>>])

CNOTGateUnchecked(controlQubit, targetQubit) ==
    Return([class |-> "CNOTGate", name |-> <<"C", "N", "O", "T">>,
            qubits |-> <<controlQubit, targetQubit>>])

CNOTGate(controlQubit, targetQubit) ==
    IF controlQubit = targetQubit
    THEN Throw("Control qubit and target qubit must be different.")
    ELSE Return([class |-> "CNOTGate", name |-> <<"C", "N", "O", "T">>,
                 qubits |-> <<controlQubit, targetQubit>>])

DigitChar(d) == <<"0", "1", "2", "3", "4", "5", "6", "7", "8", "9">>[d + 1]

RECURSIVE IntChars(_)
IntChars(n) == IF n < 10 THEN <<DigitChar(n)>>
               ELSE IntChars(n \div 10) \o <<DigitChar(n % 10)>>

\* angle * (180 / Math.PI), in thousandths of a degree.  An angle is an
\* integer number of units of pi / 7200 radians, so one unit is 0.025 degrees.
DegreesMilli(angle) == (angle * 180 * 1000) \div 7200

\* Number.prototype.toFixed(1) of m / 1000: the sign first, then the closest
\* number of tenths (the inputs hold no exact tie), then the digits.
ToFixed1(m) ==
    LET a == IF m < 0 THEN 0 - m ELSE m
        n == (a + 50) \div 100
    IN  (IF m < 0 THEN <<"-">> ELSE <<>>)
        \o IntChars(n \div 10) \o <<".">> \o <<DigitChar(n % 10)>>

RotationAxes == {"X", "Y", "Z"}

RotationGateOfAnyAxis(axis, qubit, angle) ==
    IF qubit < 0
    THEN Throw("Qubit index must be a non-negative integer.")
    ELSE Return([class |-> "RotationGate",
                 name |-> <<"R", axis, "(">> \o ToFixed1(DegreesMilli(angle))
                          \o <<"deg", ")">>,
                 qubits |-> <<qubit>>,
                 angle |-> angle])

RotationGate(axis, qubit, angle) ==
    IF qubit < 0
    THEN Throw("Qubit index must be a non-negative integer.")
    ELSE IF axis \notin RotationAxes
    THEN Throw("Axis must be 'X', 'Y', or 'Z'.")
    ELSE Return([class |-> "RotationGate",
                 name |-> <<"R", axis, "(">> \o ToFixed1(DegreesMilli(angle))
                          \o <<"deg", ")">>,
                 qubits |-> <<qubit>>,
                 angle |-> angle])

\* new <ctor>(...args)
New(c) ==
    CASE c.ctor = "HadamardGate" -> HadamardGate(c.args[1])
      [] c.ctor = "PauliXGate" -> PauliXGate(c.args[1])
      [] c.ctor = "PauliYGate" -> PauliYGate(c.args[1])
      [] c.ctor = "PauliZGate" -> PauliZGate(c.args[1])
      [] c.ctor = "CNOTGate" -> CNOTGate(c.args[1], c.args[2])
      [] c.ctor = "RotationGate" -> RotationGate(c.args[1], c.args[2], c.args[3])

Call(ctor, args) == [ctor |-> ctor, args |-> args]

NoCall == Call("none", <<>>)

NoResult == [threw |-> FALSE, error |-> "", obj |-> NoGate]

-----------------------------------------------------------------------------
(* Circuit.ts *)

addGatePrepends(gs, gate) == <<gate>> \o gs

addGate(gs, gate) == Append(gs, gate)

-----------------------------------------------------------------------------
(* Renderer.ts *)

SizeCall(width, height) ==
    [kind |-> "size", width |-> width, height |-> height, unit |-> ""]

Stroke(width, color) == [width |-> width, color |-> color]

Line(x1, y1, x2, y2, stroke) ==
    [kind |-> "line", x1 |-> x1, y1 |-> y1, x2 |-> x2, y2 |-> y2,
     stroke |-> stroke]

\* rect(width, height).move(x, y).fill(fill).stroke(stroke)
Rect(width, height, x, y, fill, stroke) ==
    [kind |-> "rect", width |-> width, height |-> height, x |-> x, y |-> y,
     fill |-> fill, stroke |-> stroke]

\* circle(size).move(x, y).fill(fill)
Disc(size, x, y, fill) ==
    [kind |-> "circle", size |-> size, x |-> x, y |-> y, fill |-> fill]

\* circle(size).move(x, y).fill(fill).stroke(stroke)
Circle(size, x, y, fill, stroke) ==
    [kind |-> "circle", size |-> size, x |-> x, y |-> y, fill |-> fill,
     stroke |-> stroke]

\* text(content).move(x, y).font(font).attr(...)
Text(content, x, y, font) ==
    [kind |-> "text", text |-> content, x |-> x, y |-> y, font |-> font,
     attr |-> [anchor |-> "middle", baseline |-> "middle"]]

Font(size, family, fill) == [size |-> size, family |-> family, fill |-> fill]

\* line 75: const totalWidth = gateSpacing * (gates.length + 1)
totalWidth(st, gs) == st.gateSpacing * (Len(gs) + 1)

resizeHeightOfLastLine(st, nq, gs) ==
    SizeCall(Px(totalWidth(st, gs) + st.gateSpacing),
             Px(st.qubitSpacing * nq))

resizeToFitGates(st, nq, gs) ==
    LET used == {nq - 1} \cup UNION {{gs[j].qubits[k] : k \in 1..Len(gs[j].qubits)} :
                                      j \in 1..Len(gs)}
        last == CHOOSE m \in used : \A q \in used : q <= m
    IN  SizeCall(Px(totalWidth(st, gs) + st.gateSpacing),
                 Px(st.qubitSpacing * (last + 2)))

resizeToGateCentres(st, nq, gs) ==
    SizeCall(Px(st.gateSpacing * Len(gs)),
             Px(st.qubitSpacing * (nq + 1)))

\* line 78: this.svg.size(totalWidth + gateSpacing, qubitSpacing * (numQubits + 1))
resize(st, nq, gs) ==
    SizeCall(Px(totalWidth(st, gs) + st.gateSpacing),
             Px(st.qubitSpacing * (nq + 1)))

qubitYFromZero(st, i) == st.qubitSpacing * i

\* line 82: const y = qubitSpacing * (i + 1)
qubitY(st, i) == st.qubitSpacing * (i + 1)

\* lines 81-86: one horizontal line per qubit, i = 0 .. numQubits - 1
drawQubitLines(st, nq, gs) ==
    [k \in 1..nq |->
        LET i == k - 1
            y == Px(qubitY(st, i))
        IN  Line(0, y, Px(totalWidth(st, gs)), y,
                 Stroke(st.lineWidth, st.lineColor))]

gateXFromZero(st, index) == st.gateSpacing * index

\* line 90: const x = gateSpacing * (index + 1)
gateX(st, index) == st.gateSpacing * (index + 1)

\* lines 100-114: a rectangle and a label per qubit of the gate
drawSingleQubitGate(st, gate, x) ==
    [k \in 1..(2 * Len(gate.qubits)) |->
        LET qubit == gate.qubits[(k + 1) \div 2]
            y == Px(st.qubitSpacing * (qubit + 1)) - HalfPx(st.gateHeight)
        IN  IF k % 2 = 1
            THEN Rect(Px(st.gateWidth), Px(st.gateHeight),
                      Px(x) - HalfPx(st.gateWidth), y,
                      st.gateFill, Stroke(st.gateStrokeWidth, st.gateStroke))
            ELSE Text(gate.name, Px(x), y + HalfPx(st.gateHeight),
                      Font(st.fontSize, st.fontFamily, st.fontColor))]

drawCNOTGateSizedByStyle(st, gate, x) ==
    LET controlQubit == gate.qubits[1]
        targetQubit == gate.qubits[2]
        y1 == Px(st.qubitSpacing * (controlQubit + 1))
        y2 == Px(st.qubitSpacing * (targetQubit + 1))
        gateSize == st.gateWidth \div 2
    IN  << Disc(Px(8), Px(x) - Px(4), y1 - Px(4), st.gateStroke),
           Line(Px(x), y1, Px(x), y2, Stroke(st.lineWidth, st.lineColor)),
           Circle(Px(gateSize), Px(x) - HalfPx(gateSize), y2 - HalfPx(gateSize),
                  "#fff", Stroke(st.gateStrokeWidth, st.gateStroke)),
           Line(Px(x) - Px(gateSize \div 4), y2, Px(x) + Px(gateSize \div 4), y2,
                Stroke(st.gateStrokeWidth, st.gateStroke)),
           Line(Px(x), y2 - Px(gateSize \div 4), Px(x), y2 + Px(gateSize \div 4),
                Stroke(st.gateStrokeWidth, st.gateStroke)) >>

\* lines 128-162
drawCNOTGate(st, gate, x) ==
    LET controlQubit == gate.qubits[1]
        targetQubit == gate.qubits[2]
        y1 == Px(st.qubitSpacing * (controlQubit + 1))
        y2 == Px(st.qubitSpacing * (targetQubit + 1))
        gateSize == 20
    IN  << Disc(Px(8), Px(x) - Px(4), y1 - Px(4), st.gateStroke),
           Line(Px(x), y1, Px(x), y2, Stroke(st.lineWidth, st.lineColor)),
           Circle(Px(gateSize), Px(x) - HalfPx(gateSize), y2 - HalfPx(gateSize),
                  "#fff", Stroke(st.gateStrokeWidth, st.gateStroke)),
           Line(Px(x) - Px(gateSize \div 4), y2, Px(x) + Px(gateSize \div 4), y2,
                Stroke(st.gateStrokeWidth, st.gateStroke)),
           Line(Px(x), y2 - Px(gateSize \div 4), Px(x), y2 + Px(gateSize \div 4),
                Stroke(st.gateStrokeWidth, st.gateStroke)) >>

\* lines 172-199
drawRotationGate(st, gate, x) ==
    [k \in 1..(2 * Len(gate.qubits)) |->
        LET qubit == gate.qubits[(k + 1) \div 2]
            y == Px(st.qubitSpacing * (qubit + 1)) - HalfPx(st.gateHeight)
        IN  IF k % 2 = 1
            THEN Rect(Px(st.gateWidth), Px(st.gateHeight),
                      Px(x) - HalfPx(st.gateWidth), y,
                      st.gateFill, Stroke(st.gateStrokeWidth, st.gateStroke))
            ELSE Text(gate.name, Px(x), y + HalfPx(st.gateHeight),
                      Font(st.fontSize - 2, st.fontFamily, st.fontColor))]

startsWithLowerCaseRotation(name) ==
    Len(name) >= 2 /\ name[1] = "R" /\ name[2] \in {"x", "y", "z"}

\* gate.name.startsWith("R")
startsWithR(name) == Len(name) >= 1 /\ name[1] = "R"

\* lines 92-115: the dispatch on the gate's name
drawGate(st, gate, x) ==
    IF gate.name = <<"C", "N", "O", "T">>
    THEN drawCNOTGate(st, gate, x)
    ELSE IF startsWithR(gate.name)
    THEN drawRotationGate(st, gate, x)
    ELSE drawSingleQubitGate(st, gate, x)

\* lines 89-116: gates.forEach((gate, index) => ...), from index on
RECURSIVE drawGates(_, _, _)
drawGates(st, gs, index) ==
    IF index >= Len(gs) THEN <<>>
    ELSE drawGate(st, gs[index + 1], gateX(st, index))
         \o drawGates(st, gs, index + 1)

drawGatesBeforeLines(st, nq, gs) ==
    <<resize(st, nq, gs)>> \o drawGates(st, gs, 0) \o drawQubitLines(st, nq, gs)

\* lines 58-117: every call draw() makes on the surface, in order
draw(st, nq, gs) ==
    <<resize(st, nq, gs)>> \o drawQubitLines(st, nq, gs) \o drawGates(st, gs, 0)

-----------------------------------------------------------------------------
(* The callers' inputs *)

\* The constructor calls of the statements circuit.addGate(new G(...)) in
\* Spec: each gate class once or twice with valid arguments, and the calls
\* that throw.
GateCalls ==
    { Call("HadamardGate", <<0>>), Call("HadamardGate", <<0 - 1>>),
      Call("PauliXGate", <<1>>), Call("PauliXGate", <<0 - 1>>),
      Call("PauliYGate", <<0>>), Call("PauliYGate", <<0 - 1>>),
      Call("PauliZGate", <<1>>), Call("PauliZGate", <<0 - 1>>),
      Call("CNOTGate", <<0, 1>>), Call("CNOTGate", <<1, 0>>),
      Call("CNOTGate", <<0, 0>>),
      Call("RotationGate", <<"X", 0, 1800>>),
      Call("RotationGate", <<"W", 0, 1800>>),
      Call("RotationGate", <<"Y", 0 - 1, 7200>>) }

\* A gate that comes from no gate class: any object with a name and qubits is an IGate.
GateObjects ==
    { [class |-> "Object", name |-> <<"R", "e", "s", "e", "t">>, qubits |-> <<1, 0>>] }

\* The styles arguments of Spec: every supplied key holds a value of its type.
StyleOverrides ==
    { EmptyObject,
      Object([qubitSpacing |-> 3, gateSpacing |-> 5, gateWidth |-> 3,
              gateHeight |-> 1, gateStroke |-> "#006064", lineColor |-> "#004d40",
              lineWidth |-> 1, fontSize |-> 16]),
      Object([qubitSpacing |-> -2, gateSpacing |-> 0, gateFill |-> "#e0f7fa",
              fontSize |-> 0]),
      Object([qubitSpacing |-> 10, gateSpacing |-> 10, gateWidth |-> 20,
              gateHeight |-> 20]) }

NumQubitsArgs == {1, 2}

\* The constructor calls of SpecGates.
CtorQubits == (0 - 2)..MaxQubit

CtorAxes == {"X", "Y", "Z", "W"}

CtorAngles == {0, 1800, 0 - 3}

CtorCalls ==
    {Call(c, <<q>>) : c \in {"HadamardGate", "PauliXGate", "PauliYGate", "PauliZGate"},
                      q \in CtorQubits}
    \cup {Call("CNOTGate", <<c, t>>) : c \in CtorQubits, t \in CtorQubits}
    \cup {Call("RotationGate", <<a, q, r>>) : a \in CtorAxes, q \in CtorQubits,
                                              r \in CtorAngles}

\* The styles arguments of SpecStyles: up to MaxOverrideKeys own keys, each
\* holding a value of its type or undefined (both are a Partial<StyleConfig>).
OverrideValues ==
    [qubitSpacing |-> 70,
     gateSpacing |-> 90,
     gateWidth |-> 0,
     gateHeight |-> 7,
     lineColor |-> "#004d40",
     lineWidth |-> 0 - 1,
     gateFill |-> "#e0f7fa",
     gateStroke |-> "#006064",
     gateStrokeWidth |-> 3,
     fontSize |-> 0,
     fontFamily |-> "Courier New, monospace",
     fontColor |-> "#006064"]

PartialOverrides ==
    UNION { { [vals |-> [k \in own \ u |-> OverrideValues[k]], undef |-> u] :
                u \in SUBSET own } :
            own \in {s \in SUBSET StyleKeys : Cardinality(s) <= MaxOverrideKeys} }

-----------------------------------------------------------------------------
(* Spec: a circuit and its renderer.  The caller adds gates and draws. *)

\* new Renderer(circuit, containerId, styles), lines 44-52
RendererConstructor(defaults, o) ==
    [styles |-> MergedStyles(defaults, o), svg |-> NewSvg, defaults |-> defaults]

\* const circuit = new Circuit(n); const renderer = new Renderer(circuit, id, o)
Init ==
    /\ numQubits \in NumQubitsArgs
    /\ gates = <<>>
    /\ override \in StyleOverrides
    /\ LET r == RendererConstructor(Object(DefaultStyleValues), override)
       IN  /\ DefaultStyleConfig = r.defaults
           /\ styles = r.styles
           /\ svg = r.svg
    /\ draws = <<>>
    /\ addArgs = <<>>
    /\ call = NoCall
    /\ result = NoResult

\* circuit.addGate(new G(...)): a constructor that throws leaves everything as it was
AddNewGate(c) ==
    /\ Len(gates) < MaxGates
    /\ LET r == New(c)
       IN  IF r.threw
           THEN UNCHANGED <<gates, addArgs>>
           ELSE /\ gates' = addGate(gates, r.obj)
                /\ addArgs' = Append(addArgs, r.obj)
    /\ UNCHANGED <<numQubits, DefaultStyleConfig, override, styles, svg, draws,
                   call, result>>

\* circuit.addGate(g) for an object g of no gate class
AddObject(g) ==
    /\ Len(gates) < MaxGates
    /\ gates' = addGate(gates, g)
    /\ addArgs' = Append(addArgs, g)
    /\ UNCHANGED <<numQubits, DefaultStyleConfig, override, styles, svg, draws,
                   call, result>>

DrawOnClearedSurface ==
    /\ Len(draws) < MaxDraws
    /\ svg' = NewSvg \o draw(styles.vals, numQubits, gates)
    /\ draws' = Append(draws, [start |-> Len(NewSvg), n |-> Len(gates)])
    /\ UNCHANGED <<numQubits, gates, DefaultStyleConfig, override, styles,
                   addArgs, call, result>>

DrawConsumingGates ==
    /\ Len(draws) < MaxDraws
    /\ svg' = svg \o draw(styles.vals, numQubits, gates)
    /\ draws' = Append(draws, [start |-> Len(svg), n |-> Len(gates)])
    /\ gates' = <<>>
    /\ UNCHANGED <<numQubits, DefaultStyleConfig, override, styles,
                   addArgs, call, result>>

\* renderer.draw()
Draw ==
    /\ Len(draws) < MaxDraws
    /\ svg' = svg \o draw(styles.vals, numQubits, gates)
    /\ draws' = Append(draws, [start |-> Len(svg), n |-> Len(gates)])
    /\ UNCHANGED <<numQubits, gates, DefaultStyleConfig, override, styles,
                   addArgs, call, result>>

Next ==
    \/ \E c \in GateCalls : AddNewGate(c)
    \/ \E g \in GateObjects : AddObject(g)
    \/ Draw

Spec == Init /\ [][Next]_vars

-----------------------------------------------------------------------------
(* SpecGates: the gate constructors on their own inputs. *)

InitGates ==
    /\ Init
    /\ numQubits = 2
    /\ override = EmptyObject

\* circuit.addGate(new G(...)), the call and its outcome kept
Statement(c) ==
    /\ Len(gates) < MaxCtorAdds
    /\ call' = c
    /\ result' = New(c)
    /\ IF result'.threw
       THEN UNCHANGED <<gates, addArgs>>
       ELSE /\ gates' = addGate(gates, result'.obj)
            /\ addArgs' = Append(addArgs, result'.obj)
    /\ UNCHANGED <<numQubits, DefaultStyleConfig, override, styles, svg, draws>>

NextGates == \E c \in CtorCalls : Statement(c)

SpecGates == InitGates /\ [][NextGates]_vars

-----------------------------------------------------------------------------
(* SpecStyles: the Renderer constructor on every partial override. *)

InitStyles ==
    /\ numQubits = 2
    /\ gates = <<>>
    /\ DefaultStyleConfig = Object(DefaultStyleValues)
    /\ override \in PartialOverrides
    /\ styles = EmptyObject
    /\ svg = <<>>
    /\ draws = <<>>
    /\ addArgs = <<>>
    /\ call = NoCall
    /\ result = NoResult

NewRenderer ==
    /\ svg = <<>>
    /\ LET r == RendererConstructor(DefaultStyleConfig, override)
       IN  /\ DefaultStyleConfig' = r.defaults
           /\ styles' = r.styles
           /\ svg' = r.svg
    /\ UNCHANGED <<numQubits, gates, override, draws, addArgs, call, result>>

NextStyles == NewRenderer

SpecStyles == InitStyles /\ [][NextStyles]_vars

-----------------------------------------------------------------------------
(* Reading the surface.  draw() number d starts at svg[draws[d].start + 1]  *)
(* and saw the first draws[d].n gates of the (append-only) gate list.       *)

St == styles.vals

CNOTName == <<"C", "N", "O", "T">>

DrawIds == 1..Len(draws)

DrawStart(d) == draws[d].start

DrawEnd(d) == IF d < Len(draws) THEN draws[d + 1].start ELSE Len(svg)

DrawnGates(d) == SubSeq(gates, 1, draws[d].n)

\* Everything draw() number d put on the surface.
Rendering(d) == SubSeq(svg, DrawStart(d) + 1, DrawEnd(d))

\* The lines of the qubits come right after the resize.
LineCount == IF numQubits > 0 THEN numQubits ELSE 0

QubitLine(d, i) == Rendering(d)[1 + (i + 1)]

\* The shapes of one gate: five for a CNOT, a rectangle and a label per qubit otherwise.
ShapeCount(g) == IF g.name = CNOTName THEN 5 ELSE 2 * Len(g.qubits)

RECURSIVE ShapesBefore(_, _)
ShapesBefore(gs, j) ==
    IF j <= 1 THEN 0 ELSE ShapesBefore(gs, j - 1) + ShapeCount(gs[j - 1])

\* The shapes of the gate appended j-th (j = 1 is the first), in the order drawn.
Shapes(d, j) ==
    LET from == 1 + LineCount + ShapesBefore(DrawnGates(d), j)
    IN  SubSeq(Rendering(d), from + 1, from + ShapeCount(DrawnGates(d)[j]))

\* The centre of a shape, in half pixels: move() places the top left corner
\* of a rectangle or circle, and a label is anchored at its middle.
CentreX(c) ==
    CASE c.kind = "rect" -> c.x + c.width \div 2
      [] c.kind = "circle" -> c.x + c.size \div 2
      [] c.kind = "text" -> c.x
      [] c.kind = "line" -> (c.x1 + c.x2) \div 2

CentreY(c) ==
    CASE c.kind = "rect" -> c.y + c.height \div 2
      [] c.kind = "circle" -> c.y + c.size \div 2
      [] c.kind = "text" -> c.y
      [] c.kind = "line" -> (c.y1 + c.y2) \div 2

Kinds(cs) == [k \in 1..Len(cs) |-> cs[k].kind]

-----------------------------------------------------------------------------
(* C1 *)

\* C1 as stated: every draw() resizes the canvas to width
\* gateSpacing * (n + 1) and height qubitSpacing * (numQubits + 1).
C1_WidthIsTotalWidth ==
    \A d \in DrawIds :
        /\ Rendering(d)[1].kind = "size"
        /\ Rendering(d)[1].width = Px(St.gateSpacing * (draws[d].n + 1))
        /\ Rendering(d)[1].height = Px(St.qubitSpacing * (numQubits + 1))

\* C1 amended: every draw() resizes the canvas to width gateSpacing * (n + 2),
\* one gateSpacing more than the length gateSpacing * (n + 1) of the qubit
\* lines, and to height qubitSpacing * (numQubits + 1); n is the number of
\* gates at the time of the call.
C1_CanvasSize ==
    \A d \in DrawIds :
        /\ Rendering(d)[1].kind = "size"
        /\ Rendering(d)[1].unit = ""
        /\ Rendering(d)[1].width = Px(St.gateSpacing * (draws[d].n + 2))
        /\ Rendering(d)[1].height = Px(St.qubitSpacing * (numQubits + 1))
        /\ \A i \in 0..(numQubits - 1) :
              QubitLine(d, i).x2 - QubitLine(d, i).x1
                  = Px(St.gateSpacing * (draws[d].n + 1))

C1_Witness ==
    /\ Len(draws) = 2
    /\ draws[1].n = 0
    /\ draws[2].n = 2
    /\ Rendering(1)[1].width = Px(10)
    /\ numQubits = 2
    /\ St.gateSpacing = 5
    /\ Rendering(2)[1].width = Px(20)
    /\ Rendering(2)[1].height = Px(9)

-----------------------------------------------------------------------------
(* C2, C3: the gate constructors (SpecGates) *)

\* The qubit indices among the arguments of a constructor call.
QubitArgs(c) ==
    CASE c.ctor = "CNOTGate" -> {c.args[1], c.args[2]}
      [] c.ctor = "RotationGate" -> {c.args[2]}
      [] c.ctor = "none" -> {}
      [] OTHER -> {c.args[1]}

\* C2 as stated: a constructor of any gate class given a negative qubit index
\* (for CNOTGate: control or target) throws, and every gate object that
\* exists has only non-negative qubit indices.
C2_NegativeIndexThrows ==
    /\ (\E q \in QubitArgs(call) : q < 0) => result.threw
    /\ \A i \in 1..Len(result.obj.qubits) : result.obj.qubits[i] >= 0
    /\ \A j \in 1..Len(gates) :
          \A i \in 1..Len(gates[j].qubits) : gates[j].qubits[i] >= 0

\* C3: new CNOTGate(c, t) with c = t throws and no gate results; every
\* CNOTGate that exists has qubits = [control, target], of length 2, with
\* control # target.
C3_CNOTControlDiffersFromTarget ==
    /\ call.ctor = "CNOTGate" =>
          /\ call.args[1] = call.args[2] =>
                /\ result.threw
                /\ result.obj = NoGate
          /\ call.args[1] # call.args[2] =>
                /\ ~result.threw
                /\ result.obj.class = "CNOTGate"
                /\ result.obj.qubits = <<call.args[1], call.args[2]>>
    /\ \A j \in 1..Len(gates) :
          gates[j].class = "CNOTGate" =>
              /\ Len(gates[j].qubits) = 2
              /\ gates[j].qubits[1] # gates[j].qubits[2]

C3_Witness ==
    /\ call = Call("CNOTGate", <<1, 1>>)
    /\ result.threw
    /\ result.error = "Control qubit and target qubit must be different."
    /\ gates = <<>>

-----------------------------------------------------------------------------
(* C4 *)

\* C4: every draw() centres each shape of the gate appended j-th (0-based)
\* at x = gateSpacing * (j + 1), whatever its qubits; with gateSpacing > 0
\* the shapes of an earlier gate are left of those of every later gate.
C4_ColumnPerGate ==
    \A d \in DrawIds :
        LET xs == [j \in 1..draws[d].n |->
                      LET sh == Shapes(d, j)
                      IN  {CentreX(sh[k]) : k \in 1..Len(sh)}]
        IN  \A j \in 1..draws[d].n :
                /\ xs[j] = {Px(St.gateSpacing * ((j - 1) + 1))}
                /\ St.gateSpacing > 0 =>
                      \A j2 \in (j + 1)..draws[d].n :
                          \A a \in xs[j], b \in xs[j2] : a < b

\* Two gates on disjoint qubits, drawn in two columns.
C4_Witness ==
    /\ Len(draws) >= 1
    /\ draws[1].n = 2
    /\ St.gateSpacing = 70
    /\ gates[1].qubits = <<1>>
    /\ gates[2].qubits = <<0>>
    /\ CentreX(Shapes(1, 1)[1]) = Px(70)
    /\ CentreX(Shapes(1, 2)[1]) = Px(140)

-----------------------------------------------------------------------------
(* C5 *)

\* The y of qubit q as the surface shows it: the y of q's line where draw()
\* drew one, and qubitSpacing * (q + 1) for a qubit that has no line.
SurfaceY(d, q) ==
    IF q >= 0 /\ q < numQubits THEN QubitLine(d, q).y1
    ELSE Px(St.qubitSpacing * (q + 1))

\* C5: every draw() emits exactly one line per qubit i in [0, numQubits), at
\* y = qubitSpacing * (i + 1), and nothing else before the gates; a box
\* gate's rectangle on qubit q has top + gateHeight / 2 equal to that y, and
\* a CNOT's disc and circle are centred on the y of its control and target.
C5_SameYForLinesAndGates ==
    \A d \in DrawIds :
        /\ Len(Rendering(d))
              = 1 + LineCount + ShapesBefore(DrawnGates(d), draws[d].n + 1)
        /\ \A i \in 0..(numQubits - 1) :
              /\ QubitLine(d, i).kind = "line"
              /\ QubitLine(d, i).x1 = 0
              /\ QubitLine(d, i).y1 = Px(St.qubitSpacing * (i + 1))
              /\ QubitLine(d, i).y2 = QubitLine(d, i).y1
        /\ \A j \in 1..draws[d].n :
              LET g == DrawnGates(d)[j]
                  sh == Shapes(d, j)
              IN  IF g.name = CNOTName
                  THEN /\ sh[1].kind = "circle"
                       /\ CentreY(sh[1]) = SurfaceY(d, g.qubits[1])
                       /\ sh[3].kind = "circle"
                       /\ CentreY(sh[3]) = SurfaceY(d, g.qubits[2])
                  ELSE \A k \in 1..Len(g.qubits) :
                          /\ sh[2 * k - 1].kind = "rect"
                          /\ sh[2 * k - 1].y + HalfPx(St.gateHeight)
                                = SurfaceY(d, g.qubits[k])
                          /\ CentreY(sh[2 * k - 1]) = SurfaceY(d, g.qubits[k])

\* A box gate on qubit 1 and a CNOT, drawn on a two-qubit circuit with an odd gateHeight.
C5_Witness ==
    /\ Len(draws) >= 1
    /\ draws[1].n = 2
    /\ numQubits = 2
    /\ St.gateHeight = 1
    /\ gates[1].name = CNOTName
    /\ gates[2].name # CNOTName
    /\ gates[2].qubits = <<1>>
    /\ Shapes(1, 2)[1].y + HalfPx(1) = QubitLine(1, 1).y1

-----------------------------------------------------------------------------
(* C6 *)

\* The kinds of the shapes of one gate, in the order drawn.
ShapeKinds(g) ==
    IF g.name = CNOTName THEN <<"circle", "line", "circle", "line", "line">>
    ELSE [k \in 1..(2 * Len(g.qubits)) |-> IF k % 2 = 1 THEN "rect" ELSE "text"]

\* C6: the calls of one draw() are, in order: the resize; the numQubits qubit
\* lines by increasing qubit index; the gates in insertion order, each in its
\* column.  A box gate is a rectangle, then its label; a CNOT is the control
\* disc, the connector, the target circle, the horizontal and the vertical
\* segment of the plus.  On 2 qubits [Hadamard(0), CNOT(0, 1)] gives the
\* resize, 2 lines, rectangle and label "H" at column 1 on qubit 0, and at
\* column 2 the disc on qubit 0, the connector from qubit 0's line to qubit
\* 1's, and the circle and plus on qubit 1.
C6_CallOrder ==
    \A d \in DrawIds :
        /\ Rendering(d)[1].kind = "size"
        /\ Len(Rendering(d))
              = 1 + LineCount + ShapesBefore(DrawnGates(d), draws[d].n + 1)
        /\ \A i \in 0..(numQubits - 1) :
              /\ Rendering(d)[2 + i].kind = "line"
              /\ Rendering(d)[2 + i].x1 = 0
              /\ Rendering(d)[2 + i].y1 = Px(St.qubitSpacing * (i + 1))
        /\ \A j \in 1..draws[d].n :
              LET g == DrawnGates(d)[j]
                  sh == Shapes(d, j)
              IN  /\ Kinds(sh) = ShapeKinds(g)
                  /\ \A k \in 1..Len(sh) : CentreX(sh[k]) = Px(St.gateSpacing * j)
                  /\ g.name # CNOTName =>
                        \A k \in 1..Len(g.qubits) : sh[2 * k].text = g.name
                  /\ g.name = CNOTName =>
                        /\ "stroke" \notin DOMAIN sh[1]
                        /\ sh[2].x1 = sh[2].x2
                        /\ sh[2].y1 = Px(St.qubitSpacing * (g.qubits[1] + 1))
                        /\ sh[2].y2 = Px(St.qubitSpacing * (g.qubits[2] + 1))
                        /\ "stroke" \in DOMAIN sh[3]
                        /\ sh[4].y1 = sh[4].y2
                        /\ sh[4].x1 # sh[4].x2
                        /\ sh[5].x1 = sh[5].x2
                        /\ sh[5].y1 # sh[5].y2
        /\ ( /\ numQubits = 2
             /\ Len(DrawnGates(d)) = 2
             /\ DrawnGates(d)[1].class = "HadamardGate"
             /\ DrawnGates(d)[1].qubits = <<0>>
             /\ DrawnGates(d)[2].class = "CNOTGate"
             /\ DrawnGates(d)[2].qubits = <<0, 1>> ) =>
              LET r == Rendering(d)
                  y0 == r[2].y1
                  yq1 == r[3].y1
                  x1 == Px(St.gateSpacing * 1)
                  x2 == Px(St.gateSpacing * 2)
              IN  /\ Kinds(r) = <<"size", "line", "line", "rect", "text",
                                  "circle", "line", "circle", "line", "line">>
                  /\ CentreX(r[4]) = x1 /\ CentreY(r[4]) = y0
                  /\ r[5].text = <<"H">> /\ r[5].x = x1 /\ r[5].y = y0
                  /\ CentreX(r[6]) = x2 /\ CentreY(r[6]) = y0
                  /\ r[7].x1 = x2 /\ r[7].y1 = y0 /\ r[7].x2 = x2 /\ r[7].y2 = yq1
                  /\ CentreX(r[8]) = x2 /\ CentreY(r[8]) = yq1
                  /\ CentreX(r[9]) = x2 /\ CentreY(r[9]) = yq1
                  /\ CentreX(r[10]) = x2 /\ CentreY(r[10]) = yq1

\* [Hadamard(0), CNOT(0, 1)] drawn on two qubits: ten calls.
C6_Witness ==
    /\ numQubits = 2
    /\ gates = <<HadamardGate(0).obj, CNOTGate(0, 1).obj>>
    /\ Len(draws) = 1
    /\ draws[1].n = 2
    /\ Len(svg) = 1 + 10
    /\ svg[2].kind = "size"
    /\ svg[11].kind = "line"

-----------------------------------------------------------------------------
(* C7 *)

\* C7: under every style, a CNOT at column x with control y1 and target y2 is
\* a disc of diameter 8 centred at (x, y1); a connector from (x, y1) to
\* (x, y2), whichever of y1, y2 is larger; a circle of diameter 20 centred at
\* (x, y2); two segments through (x, y2) reaching 5 to either side.
C7_CNOTGlyph ==
    \A d \in DrawIds :
        \A j \in 1..draws[d].n :
            DrawnGates(d)[j].class = "CNOTGate" =>
                LET g == DrawnGates(d)[j]
                    sh == Shapes(d, j)
                    x == Px(St.gateSpacing * j)
                    y1 == Px(St.qubitSpacing * (g.qubits[1] + 1))
                    y2 == Px(St.qubitSpacing * (g.qubits[2] + 1))
                IN  /\ Len(sh) = 5
                    /\ sh[1].kind = "circle" /\ sh[1].size = Px(8)
                    /\ CentreX(sh[1]) = x /\ CentreY(sh[1]) = y1
                    /\ sh[2].kind = "line"
                    /\ <<sh[2].x1, sh[2].y1, sh[2].x2, sh[2].y2>> = <<x, y1, x, y2>>
                    /\ sh[3].kind = "circle" /\ sh[3].size = Px(20)
                    /\ CentreX(sh[3]) = x /\ CentreY(sh[3]) = y2
                    /\ sh[4].kind = "line"
                    /\ <<sh[4].x1, sh[4].y1, sh[4].x2, sh[4].y2>>
                          = <<x - Px(5), y2, x + Px(5), y2>>
                    /\ sh[5].kind = "line"
                    /\ <<sh[5].x1, sh[5].y1, sh[5].x2, sh[5].y2>>
                          = <<x, y2 - Px(5), x, y2 + Px(5)>>

\* A CNOT whose control lies below its target, drawn under a style that is not the default.
C7_Witness ==
    /\ Len(draws) >= 1
    /\ draws[1].n >= 1
    /\ gates[1].class = "CNOTGate"
    /\ gates[1].qubits = <<1, 0>>
    /\ St.qubitSpacing = 3
    /\ St.gateWidth = 3
    /\ Shapes(1, 1)[2].y1 > Shapes(1, 1)[2].y2
    /\ Shapes(1, 1)[3].size = Px(20)

-----------------------------------------------------------------------------
(* C8 *)

\* C8: addGate(gate) succeeds for every gate, whatever its content; it puts
\* the gate at the end of the list, the earlier gates as they were, and
\* changes nothing else, numQubits included.  The gate list is always the
\* sequence of addGate's arguments in call order.
C8_AddGateAppends ==
    /\ [](gates = addArgs)
    /\ [](Len(gates) < MaxGates => \A g \in GateObjects : ENABLED AddObject(g))
    /\ [][Len(addArgs') = Len(addArgs) + 1 =>
            /\ Len(gates') = Len(gates) + 1
            /\ SubSeq(gates', 1, Len(gates)) = gates
            /\ gates'[Len(gates')] = addArgs'[Len(addArgs')]
            /\ numQubits' = numQubits
            /\ <<DefaultStyleConfig, styles, svg>> = <<DefaultStyleConfig, styles, svg>>']_vars

\* Two gates added, the second one an object of no gate class, its qubits in reverse order.
C8_Witness ==
    /\ Len(gates) = 2
    /\ gates[1].class = "RotationGate"
    /\ gates[2].class = "Object"
    /\ gates[2].qubits = <<1, 0>>
    /\ addArgs = gates

-----------------------------------------------------------------------------
(* C10: the Renderer constructor (SpecStyles) *)

\* The keys an override supplies: its own keys.
Supplied(o) == DOMAIN o.vals \cup o.undef

\* C10 as stated: once a Renderer is constructed, each of the 12 style fields
\* holds a defined value: the override's for a key the override supplies,
\* DefaultStyleConfig's otherwise; DefaultStyleConfig is as it was.
C10_EveryStyleDefined ==
    svg # <<>> =>
        /\ \A k \in StyleKeys :
              /\ k \in DOMAIN styles.vals
              /\ k \in DOMAIN override.vals => styles.vals[k] = override.vals[k]
              /\ k \notin Supplied(override) => styles.vals[k] = DefaultStyleValues[k]
        /\ DefaultStyleConfig = Object(DefaultStyleValues)

-----------------------------------------------------------------------------
(* C11 *)

\* The canvas of draw() number d, as its resize set it.
Canvas(d) == Rendering(d)[1]

\* The rectangles and circles of the gates of draw() number d.
GateBoxes(d) ==
    LET r == Rendering(d)
    IN  {r[k] : k \in {k \in (2 + LineCount)..Len(r) : r[k].kind \in {"rect", "circle"}}}

\* The extent of a rectangle or circle: move() places its top left corner.
BoxWidth(c) == IF c.kind = "rect" THEN c.width ELSE c.size

BoxHeight(c) == IF c.kind = "rect" THEN c.height ELSE c.size

Inside(c, canvas) ==
    /\ 0 <= c.x
    /\ c.x + BoxWidth(c) <= canvas.width
    /\ 0 <= c.y
    /\ c.y + BoxHeight(c) <= canvas.height

AllInRange(gs) ==
    \A j \in 1..Len(gs) :
        \A k \in 1..Len(gs[j].qubits) :
            gs[j].qubits[k] >= 0 /\ gs[j].qubits[k] < numQubits

HasCNOT(gs) == \E j \in 1..Len(gs) : gs[j].name = CNOTName

\* C11 as stated: with every gate's qubits in [0, numQubits) and positive
\* spacings, every rectangle, disc and circle of a gate lies inside
\* [0, canvas width] x [0, canvas height].
C11_NothingClipped ==
    \A d \in DrawIds :
        ( /\ AllInRange(DrawnGates(d))
          /\ St.gateSpacing > 0
          /\ St.qubitSpacing > 0 ) =>
            \A c \in GateBoxes(d) : Inside(c, Canvas(d))

\* C11 amended: with every gate's qubits in [0, numQubits), positive
\* spacings, 0 <= gateWidth <= 2 * gateSpacing, 0 <= gateHeight <=
\* 2 * qubitSpacing and, when the circuit holds a CNOT, both spacings at least
\* 10 (the radius of the target circle), every rectangle, disc and circle of
\* a gate lies inside [0, canvas width] x [0, canvas height].
C11_NothingClippedWhenSpacingsFit ==
    \A d \in DrawIds :
        ( /\ AllInRange(DrawnGates(d))
          /\ St.gateSpacing > 0
          /\ St.qubitSpacing > 0
          /\ 0 <= St.gateWidth /\ St.gateWidth <= 2 * St.gateSpacing
          /\ 0 <= St.gateHeight /\ St.gateHeight <= 2 * St.qubitSpacing
          /\ HasCNOT(DrawnGates(d)) =>
                (St.gateSpacing >= 10 /\ St.qubitSpacing >= 10) ) =>
            \A c \in GateBoxes(d) : Inside(c, Canvas(d))

\* A CNOT and a box gate on the last qubit, drawn with spacings that fit the
\* shapes exactly: the circle touches the left edge, the rectangle the bottom.
C11_Witness ==
    /\ Len(draws) >= 1
    /\ draws[1].n = 2
    /\ numQubits = 2
    /\ St.gateSpacing = 10
    /\ St.gateHeight = 20
    /\ gates[1].class = "CNOTGate"
    /\ gates[1].qubits = <<1, 0>>
    /\ gates[2].class = "PauliXGate"
    /\ Shapes(1, 1)[3].x = 0
    /\ Shapes(1, 2)[1].y + Shapes(1, 2)[1].height = Canvas(1).height

-----------------------------------------------------------------------------
(* C12 *)

\* C12: a draw() call changes none of its inputs: numQubits, the gate list
\* (its length, its order, each gate with its name and qubits) and the
\* renderer's merged styles are after the call what they were before it.
C12_DrawKeepsInputs ==
    [][Len(draws') = Len(draws) + 1 =>
            /\ numQubits' = numQubits
            /\ Len(gates') = Len(gates)
            /\ \A j \in 1..Len(gates) :
                  /\ gates'[j] = gates[j]
                  /\ gates'[j].name = gates[j].name
                  /\ gates'[j].qubits = gates[j].qubits
            /\ styles' = styles
            /\ DefaultStyleConfig' = DefaultStyleConfig]_vars

\* Two draws of a circuit of two gates under overridden styles, the gates
\* still there.
C12_Witness ==
    /\ Len(draws) = 2
    /\ draws[1].n = 2
    /\ Len(gates) = 2
    /\ gates[1].class = "HadamardGate"
    /\ gates[2].class = "CNOTGate"
    /\ St.gateSpacing = 5

-----------------------------------------------------------------------------
(* C13 *)

\* C13: new RotationGate(axis, q, angle) with an axis outside {X, Y, Z}
\* throws, no gate object results, and the statement circuit.addGate(new
\* RotationGate(...)) leaves the gate list as it was; with an axis in
\* {X, Y, Z} and q >= 0 it returns a gate with qubits = [q] and the angle
\* stored as given.
C13_RotationAxisChecked ==
    /\ [](call.ctor = "RotationGate" =>
            IF call.args[1] \notin {"X", "Y", "Z"}
            THEN /\ result.threw
                 /\ result.obj = NoGate
            ELSE call.args[2] >= 0 =>
                    /\ ~result.threw
                    /\ result.obj.class = "RotationGate"
                    /\ result.obj.qubits = <<call.args[2]>>
                    /\ result.obj.angle = call.args[3])
    /\ [][(call'.ctor = "RotationGate" /\ call'.args[1] \notin {"X", "Y", "Z"}) =>
            /\ gates' = gates
            /\ addArgs' = addArgs]_vars

\* The attempt with axis W on a valid qubit has thrown the axis error.
C13_Witness ==
    /\ call = Call("RotationGate", <<"W", 1, 0 - 3>>)
    /\ result.threw
    /\ result.error = "Axis must be 'X', 'Y', or 'Z'."
    /\ gates = <<>>

-----------------------------------------------------------------------------
(* C14 *)

BoxClasses == {"HadamardGate", "PauliXGate", "PauliYGate", "PauliZGate"}

BuiltInClasses == BoxClasses \cup {"CNOTGate", "RotationGate"}

\* The rectangle of a box strategy for the gate in column j on qubit q.
IsGateRect(c, j, q) ==
    /\ c.kind = "rect"
    /\ c.width = Px(St.gateWidth)
    /\ c.height = Px(St.gateHeight)
    /\ c.x = Px(St.gateSpacing * j) - HalfPx(St.gateWidth)
    /\ c.y = Px(St.qubitSpacing * (q + 1)) - HalfPx(St.gateHeight)

\* What one strategy leaves on the surface for gate g in column j.
IsStrategyOf(sh, g, j) ==
    CASE g.class = "CNOTGate" ->
            /\ Len(sh) = 5
            /\ Kinds(sh) = <<"circle", "line", "circle", "line", "line">>
      [] g.class = "RotationGate" ->
            /\ Len(sh) = 2
            /\ IsGateRect(sh[1], j, g.qubits[1])
            /\ sh[2].kind = "text"
            /\ sh[2].text = g.name
            /\ sh[2].font.size = St.fontSize - 2
      [] g.class \in BoxClasses ->
            /\ Len(sh) = 2
            /\ IsGateRect(sh[1], j, g.qubits[1])
            /\ sh[2].kind = "text"
            /\ sh[2].text = g.name
            /\ sh[2].font.size = St.fontSize

\* The gates the RotationGate constructor returns, over every axis and angle.
RotationGates ==
    {New(c).obj : c \in {c \in CtorCalls : c.ctor = "RotationGate" /\ ~New(c).threw}}

\* C14: every gate a built-in constructor returned is drawn by the strategy
\* of its class and by no other: a CNOTGate as the five shapes of the
\* control-target glyph, a RotationGate as one rectangle and its label at
\* fontSize - 2, a Hadamard or Pauli gate as one rectangle and its label at
\* fontSize; both rectangles are gateWidth x gateHeight with the top left
\* corner at (x - gateWidth / 2, baseline - gateHeight / 2).  The surface
\* holds nothing for the gate beyond these shapes.  The rotation gates of
\* every axis and angle are put through the dispatch under the renderer's
\* styles once, while the circuit is still empty (the styles never change).
C14_DispatchByKind ==
    /\ \A d \in DrawIds :
          LET gs == DrawnGates(d)
              r == Rendering(d)
          IN  /\ Len(r) = 1 + LineCount + ShapesBefore(gs, Len(gs) + 1)
              /\ \A j \in 1..Len(gs) :
                    gs[j].class \in BuiltInClasses =>
                        IsStrategyOf(Shapes(d, j), gs[j], j)
    /\ gates = <<>> =>
          \A g \in RotationGates :
              LET sh == drawGate(St, g, St.gateSpacing)
              IN  /\ Len(sh) = 2
                  /\ sh[1].kind = "rect"
                  /\ sh[2].text = g.name
                  /\ sh[2].font.size = St.fontSize - 2

\* A Hadamard and a rotation gate drawn on the same qubit with the default
\* styles: the same rectangle one column apart, labels at 14 and 12.
C14_Witness ==
    /\ Len(draws) >= 1
    /\ draws[1].n = 2
    /\ gates[1].class = "HadamardGate"
    /\ gates[2].class = "RotationGate"
    /\ Shapes(1, 1)[1].y = Shapes(1, 2)[1].y
    /\ Shapes(1, 2)[1].x - Shapes(1, 1)[1].x = Px(70)
    /\ Shapes(1, 1)[2].font.size = 14
    /\ Shapes(1, 2)[2].font.size = 12
    /\ Shapes(1, 2)[2].text = <<"R", "X", "(", "4", "5", ".", "0", "deg", ")">>

-----------------------------------------------------------------------------
(* C15 *)

OutOfRange(g) == \E k \in 1..Len(g.qubits) : g.qubits[k] >= numQubits

\* The gate with every qubit index >= numQubits moved to the last qubit.
MovedInRange(g) ==
    [g EXCEPT !.qubits = [k \in 1..Len(g.qubits) |->
                            IF g.qubits[k] >= numQubits THEN numQubits - 1
                            ELSE g.qubits[k]]]

\* The shape a gate draws on its k-th qubit: the disc or the circle of a
\* CNOT, the rectangle of a box.
ShapeOnQubit(sh, g, k) ==
    IF g.name = CNOTName THEN sh[IF k = 1 THEN 1 ELSE 3] ELSE sh[2 * k - 1]

\* C15: a gate with a qubit index q >= numQubits is in the list and drawn;
\* its shape on q is centred at y = qubitSpacing * (q + 1), which for a
\* positive qubitSpacing is at or below the canvas height and on no drawn
\* baseline; the canvas size, the baselines and every shape of the other
\* gates are what draw() gives with that gate moved into range, and the gate
\* keeps its column.
C15_OutOfRangeQubit ==
    \A d \in DrawIds :
        LET gs == DrawnGates(d)
            r == Rendering(d)
        IN  \A j \in 1..Len(gs) :
                OutOfRange(gs[j]) =>
                    LET sh == Shapes(d, j)
                        moved == draw(St, numQubits, [gs EXCEPT ![j] = MovedInRange(gs[j])])
                    IN  /\ \A k \in 1..Len(gs[j].qubits) :
                              gs[j].qubits[k] >= numQubits =>
                                  LET y == CentreY(ShapeOnQubit(sh, gs[j], k))
                                  IN  /\ y = Px(St.qubitSpacing * (gs[j].qubits[k] + 1))
                                      /\ St.qubitSpacing > 0 =>
                                            /\ y >= r[1].height
                                            /\ \A i \in 0..(numQubits - 1) :
                                                  QubitLine(d, i).y1 # y
                        /\ \A k \in 1..Len(sh) : CentreX(sh[k]) = Px(St.gateSpacing * j)
                        /\ Len(moved) = Len(r)
                        /\ SubSeq(moved, 1, 1 + LineCount) = SubSeq(r, 1, 1 + LineCount)
                        /\ \A i \in 1..Len(gs) :
                              i # j =>
                                  LET from == 1 + LineCount + ShapesBefore(gs, i)
                                  IN  SubSeq(moved, from + 1, from + ShapeCount(gs[i]))
                                          = Shapes(d, i)

\* On one qubit, a Pauli-X on qubit 1 and then a Hadamard on qubit 0, drawn
\* with the default styles: the X box is centred on the bottom edge of the
\* canvas (y = 100 = height), the Hadamard sits on the only baseline.
C15_Witness ==
    /\ numQubits = 1
    /\ Len(draws) >= 1
    /\ draws[1].n = 2
    /\ gates[1].class = "PauliXGate"
    /\ gates[1].qubits = <<1>>
    /\ gates[2].class = "HadamardGate"
    /\ CentreY(Shapes(1, 1)[1]) = Px(100)
    /\ Rendering(1)[1].height = Px(100)
    /\ CentreY(Shapes(1, 2)[1]) = QubitLine(1, 0).y1

-----------------------------------------------------------------------------
(* C16 *)

\* The surface after the first d draws: what the constructor left, then the
\* rendering of the gate list as it was at each draw.
RECURSIVE RenderingsUpTo(_)
RenderingsUpTo(d) ==
    IF d = 0 THEN NewSvg
    ELSE RenderingsUpTo(d - 1) \o draw(St, numQubits, DrawnGates(d))

\* The size the surface has: that of the last size() call it received.
CanvasSize ==
    LET ks == {k \in 1..Len(svg) : svg[k].kind = "size"}
    IN  svg[CHOOSE k \in ks : \A m \in ks : m <= k]

\* C16: the surface is the one the constructor created, holding in order the
\* complete rendering of each draw() of the circuit as it was at that call;
\* its size is the one the latest draw() set; a draw() step appends the
\* rendering of the current gate list, and no step removes or changes what
\* the surface already holds.
C16_SurfaceAccumulates ==
    /\ [](svg = RenderingsUpTo(Len(draws)))
    /\ [](CanvasSize = IF draws = <<>> THEN NewSvg[1]
                       ELSE resize(St, numQubits, DrawnGates(Len(draws))))
    /\ [][Len(draws') = Len(draws) + 1 =>
            svg' = svg \o draw(St, numQubits, gates)]_vars
    /\ [][Len(svg') >= Len(svg) /\ SubSeq(svg', 1, Len(svg)) = svg]_vars

\* draw(), addGate, draw() on two qubits with the default styles: the
\* surface holds the 100% size of the constructor, the rendering of
\* [Hadamard] (5 calls) and then that of [Hadamard, CNOT] (10 calls), and has
\* the size of the second.
C16_Witness ==
    /\ numQubits = 2
    /\ Len(draws) = 2
    /\ draws[1].n = 1
    /\ draws[2].n = 2
    /\ gates[1].class = "HadamardGate"
    /\ gates[2].class = "CNOTGate"
    /\ Len(svg) = 16
    /\ svg[1].unit = "%"
    /\ svg[2].kind = "size" /\ svg[2].width = Px(210)
    /\ svg[7].kind = "size" /\ svg[7].width = Px(280)
    /\ CanvasSize = svg[7]

====
